---- MODULE Spec2Model ----
(***************************************************************************)
(* A model of the session relay and tunnel engine of the ssh package:      *)
(*   - the Remote Copy Framer      (client.go, _copy and its callers),     *)
(*   - the Server Channel Handler  (handleChannels / handleChannel),       *)
(*   - the Forwarding Tunnel       (client.go, Forward / ForwardNetcat).   *)
(* Each component has its own specification (CopySpec, ChanSpec,           *)
(* AcceptSpec, ...); a component's actions leave the other components'     *)
(* variables unchanged.  Bytes are modelled as one-character strings.      *)
(***************************************************************************)
EXTENDS Integers, Sequences, FiniteSets, TLC

\* ------------------------------------------------------------------ bounds
\* longest generated payload (in bytes)
MaxPayload == 2
\* bytes moved by one iteration of io.Copy's loop
CopyChunk == 2
\* channels a client opens on one server connection
MaxChans == 2
\* local connections made to the tunnel
MaxConns == 2
\* longest byte sequence a peer sends on a connection
MaxData == 2

\* buf := make([]byte, 1024)
BufLen == 1024

VARIABLES
    \* ---- Remote Copy Framer (one call of _copy)
    cpPc,        \* position in the call
    cpArgs,      \* the arguments _copy was called with
    cpSrc,       \* bytes the contents reader has not yet returned
    cpWire,      \* bytes the session's stdin pipe has accepted, in order
    cpTrace,     \* the operations performed on the stdin pipe, in order
    cpFailed,    \* the stages of the call that failed
    cpBroken,    \* the stdin pipe has failed a write (its writes keep failing)
    cpRet,       \* what the call returned ("none" while it runs)
    cpSessCloses \* number of session.Close() calls made by the call

cpVars == <<cpPc, cpArgs, cpSrc, cpWire, cpTrace, cpFailed, cpBroken, cpRet,
           cpSessCloses>>

VARIABLES
    \* ---- Server Channel Handler (one server connection)
    chType,      \* the declared type of each channel request ("none": not yet made)
    chQueue,     \* the requests waiting in the chans channel, oldest first
    hcSeen,      \* per request: how many rejections had happened when the loop took it
    hPc,         \* position of handleChannel for each request
    rejectMsg,   \* the reason each request was rejected with ("" if it was not)
    chAccepted,  \* the request was accepted (newChannel.Accept succeeded)
    clientClosed,\* the client has closed its end of the channel
    bash,        \* the shell of the channel: none, running, exited, reaped
    connCloses,  \* number of connection.Close() calls on the channel
    waits,       \* number of bash.Process.Wait() calls that returned
    onceDone,    \* sync.Once: done flag
    onceHolder,  \* sync.Once: the task holding its mutex ("none" if free)
    copyPc,      \* position of the two copy tasks of each channel
    srvLog,      \* what the server logged, per channel
    srvPanicked  \* the server process died of an unrecovered panic

chVars == <<chType, chQueue, hcSeen, hPc, rejectMsg, chAccepted, clientClosed, bash,
           connCloses, waits, onceDone, onceHolder, copyPc, srvLog, srvPanicked>>

VARIABLES
    \* ---- Server Channel Handler: the request loop of each channel
    chLimit,     \* number of channels the client opens on the connection
    reqSent,     \* number of requests the client has sent on each channel
    reqQueue,    \* the requests waiting in each channel's requests channel
    winsize,     \* the geometry of each channel's PTY: [w, h]
    served       \* the requests the loop has handled, with the reply it made

rqVars == <<chLimit, reqSent, reqQueue, winsize, served>>

VARIABLES
    \* ---- Server accept loop (one call of DefaultSshHandler)
    sPc,         \* position: setup, listen, accept, handshake, or returned
    sOutcome,    \* how each Accept call so far ended: acceptErr, handshakeErr, served
    sLog,        \* the errors the loop logged, in order
    sRet,        \* what ServeSSH returned ("none" while it runs)
    serveCalls   \* number of calls of the server's serveSSH()

svVars == <<sPc, sOutcome, sLog, sRet, serveCalls>>

VARIABLES
    \* ---- Forwarding Tunnel (one call of Forward)
    peers,       \* number of peers that connect to the listener
    fwdCh,       \* the channel StartForwardedListener returned ("none" while it runs)
    chOps,       \* number of sends and closes made on that channel
    opens,       \* number of calls of the session opener so far
    openCalls,   \* number of calls of the session opener for each connection
    sessOf,      \* the session each connection's opener call opened (0: none)
    sockCloses,  \* number of Close() calls on each accepted local socket
    listener,    \* the local listener: unbound, open or closed
    fwdPc,       \* StartForwardedListener / Forward: listen, accept, or returned
    fwdRet,      \* what Forward returned ("none" while it runs)
    accepted,    \* number of local connections accepted so far
    tnPanicked,  \* the tunnel process died of an unrecovered panic
    gPc,         \* position of each connection's task
    sess,        \* what forwardFunc returned for each connection
    sessCloses,  \* number of Close() calls on each connection's session
    stdinClosed, \* the write side of the session's stdin has been closed
    errVar,      \* the err variable each connection's closures share
    tPc,         \* position of each connection's three copy tasks
    tRes,        \* what each copy task's own copy returned
    tnLog,       \* the errors logged: <<connection, logging task, error>>
    peerSent,    \* the bytes each peer sent on its connection
    sockIn,      \* bytes sent by the peer and not yet read from the socket
    inRead,      \* bytes read from the socket
    stdinRecv,   \* bytes delivered to the session's stdin
    sOut,        \* bytes on the session's stdout, not yet read
    outRead,     \* bytes read from the session's stdout
    sockOut,     \* bytes written to the socket
    stderrBuf,   \* the stderr task's buffer
    peerClosed,  \* the peer has closed the connection
    remoteDone   \* the remote command has exited

tnVars == <<peers, fwdCh, chOps, opens, openCalls, sessOf, sockCloses, listener, fwdPc, fwdRet, accepted, tnPanicked, gPc, sess, sessCloses,
           stdinClosed, errVar, tPc, tRes, tnLog, peerSent, sockIn, inRead, stdinRecv,
           sOut, outRead, sockOut, stderrBuf, peerClosed, remoteDone>>

vars == <<cpVars, chVars, rqVars, svVars, tnVars>>

\* the pairing of connections and sessions
pairVars == <<opens, openCalls, sessOf>>

\* what the actions of one component leave alone
NotCopy == <<chVars, rqVars, svVars, tnVars>>
NotChan == <<cpVars, rqVars, svVars, tnVars>>
NotTunnel == <<cpVars, chVars, rqVars, svVars>>
NotServer == <<cpVars, chVars, rqVars, tnVars>>

\* ------------------------------------------------------------ byte helpers
LF == "\n"
NUL == "NUL"
Hello == <<"h", "e", "l", "l", "o">>
HelloTxt == <<"h", "e", "l", "l", "o", ".", "t", "x", "t">>

Min(a, b) == IF a < b THEN a ELSE b

IsPrefix(s, t) == Len(s) <= Len(t) /\ SubSeq(t, 1, Len(s)) = s

Take(s, n) == SubSeq(s, 1, Min(n, Len(s)))

Drop(s, n) == SubSeq(s, Min(n, Len(s)) + 1, Len(s))

SeqsUpTo(S, n) == UNION {[1..k -> S] : k \in 0..n}

\* ------------------------------------------------------------ fmt.Sprintf
Digit(d) == <<"0", "1", "2", "3", "4", "5", "6", "7", "8", "9">>[d + 1]

\* the digits of a non-negative integer in the given base
RECURSIVE FmtBase(_, _)
FmtBase(n, base) ==
    IF n < base THEN <<Digit(n)>>
    ELSE FmtBase(n \div base, base) \o <<Digit(n % base)>>

\* %o without the '#' flag
FmtPlainO(n) == FmtBase(n, 8)

\* %#o : octal with a leading 0 unless the first digit already is 0
FmtSharpO(n) ==
    LET d == FmtBase(n, 8) IN IF d[1] # "0" THEN <<"0">> \o d ELSE d

\* %d
FmtD(n) == FmtBase(n, 10)

\* fmt.Sprintf("C%#o %d %s\n", mode, size, fileName)
Header(mode, size, fileName) ==
    <<"C">> \o FmtSharpO(mode) \o <<" ">> \o FmtD(size) \o <<" ">>
        \o fileName \o <<LF>>

TerminatorMissing == <<>>

\* []byte("\x00")
Terminator == <<NUL>>

\* path.Base
RECURSIVE StripSlashes(_)
StripSlashes(p) ==
    IF Len(p) > 0 /\ p[Len(p)] = "/" THEN StripSlashes(SubSeq(p, 1, Len(p) - 1))
    ELSE p

RECURSIVE AfterLastSlash(_)
AfterLastSlash(p) ==
    IF \E i \in 1..Len(p) : p[i] = "/"
    THEN AfterLastSlash(Tail(p))
    ELSE p

Base(p) ==
    IF p = <<>> THEN <<".">>
    ELSE LET q == AfterLastSlash(StripSlashes(p))
         IN IF q = <<>> THEN <<"/">> ELSE q

\* ------------------------------------------------------------ copy inputs
PayloadBytes == {"a", NUL}
Payloads == SeqsUpTo(PayloadBytes, MaxPayload) \cup {Hello}
\* 0, 07, 0644, 0664, 0755
Modes == {0, 7, 420, 436, 493}
FileNames == {HelloTxt, <<"f">>, <<"d", "/", "f">>, <<"a", LF, "b">>}
\* the local files CopyFile may be pointed at: path, permission bits, contents
Files ==
    { [path |-> <<"t", "/", "f">>, perm |-> 420, contents |-> <<"a">>],
      [path |-> HelloTxt, perm |-> 420, contents |-> Hello],
      [path |-> <<"x">>, perm |-> 384, contents |-> <<>>] }

NoArgs == [size |-> 0, mode |-> 0, fileName |-> <<>>, contents |-> <<>>, via |-> "none"]

CopyInit ==
    /\ cpPc = "idle"
    /\ cpArgs = NoArgs
    /\ cpSrc = <<>>
    /\ cpWire = <<>>
    /\ cpTrace = <<>>
    /\ cpFailed = {}
    /\ cpBroken = FALSE
    /\ cpRet = "none"
    /\ cpSessCloses = 0

\* entry of _copy with the given arguments
copy_Enter(size, mode, fileName, contents, via) ==
    /\ cpPc = "idle"
    /\ cpPc' = "newSession"
    /\ cpArgs' = [size |-> size, mode |-> mode, fileName |-> fileName,
                  contents |-> contents, via |-> via]
    /\ cpSrc' = contents
    /\ UNCHANGED <<cpWire, cpTrace, cpFailed, cpBroken, cpRet, cpSessCloses>>
    /\ UNCHANGED NotCopy

\* CopyWithFileMode: a bytes.Reader over data, size = len(data), name as given
CopyWithFileMode ==
    \E mode \in Modes, fileName \in FileNames, data \in Payloads :
        copy_Enter(Len(data), mode, fileName, data, "CopyWithFileMode")

\* Copy: CopyWithFileMode with mode 0664
Copy ==
    \E fileName \in FileNames, data \in Payloads :
        copy_Enter(Len(data), 436, fileName, data, "Copy")

\* CopyFile: os.Open and Stat may fail (returned before any session is opened);
\* otherwise _copy(size, perm, path.Base(filePath), destination, f, conn)
CopyFile ==
    \E f \in Files, opened \in BOOLEAN :
        IF opened
        THEN copy_Enter(Len(f.contents), f.perm, Base(f.path), f.contents, "CopyFile")
        ELSE /\ cpPc = "idle"
             /\ cpPc' = "done"
             /\ cpRet' = "err:open"
             /\ cpArgs' = [NoArgs EXCEPT !.via = "CopyFile"]
             /\ UNCHANGED <<cpSrc, cpWire, cpTrace, cpFailed, cpBroken, cpSessCloses>>
             /\ UNCHANGED NotCopy

\* return err from _copy once the session exists: the deferred session.Close() runs
copy_Return(ret) ==
    /\ cpPc' = "done"
    /\ cpRet' = ret
    /\ cpSessCloses' = cpSessCloses + 1

\* session, err := conn.NewSession(); if err != nil { return err }
copy_NewSession ==
    /\ cpPc = "newSession"
    /\ \E ok \in BOOLEAN :
        IF ok
        THEN /\ cpPc' = "start"
             /\ UNCHANGED <<cpFailed, cpRet>>
        ELSE /\ cpPc' = "done"
             /\ cpRet' = "err:session"
             /\ cpFailed' = cpFailed \cup {"session"}
    /\ UNCHANGED <<cpArgs, cpSrc, cpWire, cpTrace, cpBroken, cpSessCloses>>
    /\ UNCHANGED NotCopy

\* w, _ := session.StdinPipe(); if err := session.Start(cmd); err != nil { return err }
copy_Start ==
    /\ cpPc = "start"
    /\ \E ok \in BOOLEAN :
        IF ok
        THEN /\ cpPc' = "header"
             /\ UNCHANGED <<cpFailed, cpRet, cpSessCloses>>
        ELSE /\ copy_Return("err:start")
             /\ cpFailed' = cpFailed \cup {"start"}
    /\ UNCHANGED <<cpArgs, cpSrc, cpWire, cpTrace, cpBroken>>
    /\ UNCHANGED NotCopy

\* _, err = w.Write(header); if err != nil { return err }
copy_WriteHeader ==
    /\ cpPc = "header"
    /\ \E ok \in BOOLEAN :
        IF ok
        THEN /\ cpPc' = "payload"
             /\ cpWire' = cpWire \o Header(cpArgs.mode, cpArgs.size, cpArgs.fileName)
             /\ cpTrace' = Append(cpTrace, "header")
             /\ UNCHANGED <<cpFailed, cpRet, cpSessCloses>>
        ELSE /\ copy_Return("err:header")
             /\ cpFailed' = cpFailed \cup {"header"}
             /\ UNCHANGED <<cpWire, cpTrace>>
    /\ UNCHANGED <<cpArgs, cpSrc, cpBroken>>
    /\ UNCHANGED NotCopy

\* io.Copy(w, contents): one iteration of its loop (read a chunk, write it); the
\* error io.Copy returns is dropped.  Only a file can fail a read (a bytes.Reader
\* cannot); a failed write leaves the pipe failing.
copy_Payload ==
    /\ cpPc = "payload"
    /\ \E res \in {"ok", "readErr", "writeErr"} :
        CASE res = "ok" /\ cpSrc = <<>> ->
                \* end of stream: io.Copy returns nil
                /\ cpPc' = "nul"
                /\ UNCHANGED <<cpSrc, cpWire, cpTrace, cpFailed, cpBroken>>
          [] res = "ok" /\ cpSrc # <<>> ->
                /\ cpWire' = cpWire \o Take(cpSrc, CopyChunk)
                /\ cpSrc' = Drop(cpSrc, CopyChunk)
                /\ cpTrace' = Append(cpTrace, "data")
                /\ UNCHANGED <<cpPc, cpFailed, cpBroken>>
          [] res = "readErr" /\ cpArgs.via = "CopyFile" ->
                /\ cpPc' = "nul"
                /\ cpFailed' = cpFailed \cup {"payload"}
                /\ UNCHANGED <<cpSrc, cpWire, cpTrace, cpBroken>>
          [] res = "writeErr" /\ cpSrc # <<>> ->
                /\ cpPc' = "nul"
                /\ cpSrc' = Drop(cpSrc, CopyChunk)
                /\ cpFailed' = cpFailed \cup {"payload"}
                /\ cpBroken' = TRUE
                /\ UNCHANGED <<cpWire, cpTrace>>
          [] OTHER -> FALSE
    /\ UNCHANGED <<cpArgs, cpRet, cpSessCloses>>
    /\ UNCHANGED NotCopy

\* _, err = w.Write([]byte("\x00")); if err != nil { return err }
copy_WriteNul ==
    /\ cpPc = "nul"
    /\ \E ok \in IF cpBroken THEN {FALSE} ELSE BOOLEAN :
        IF ok
        THEN /\ cpPc' = "close"
             /\ cpWire' = cpWire \o Terminator
             /\ cpTrace' = Append(cpTrace, "nul")
             /\ UNCHANGED <<cpFailed, cpRet, cpSessCloses>>
        ELSE /\ copy_Return("err:nul")
             /\ cpFailed' = cpFailed \cup {"nul"}
             /\ UNCHANGED <<cpWire, cpTrace>>
    /\ UNCHANGED <<cpArgs, cpSrc, cpBroken>>
    /\ UNCHANGED NotCopy

\* err = w.Close(); return err
copy_Close ==
    /\ cpPc = "close"
    /\ \E ok \in BOOLEAN :
        IF ok
        THEN /\ copy_Return("nil")
             /\ cpTrace' = Append(cpTrace, "close")
             /\ UNCHANGED cpFailed
        ELSE /\ copy_Return("err:close")
             /\ cpFailed' = cpFailed \cup {"close"}
             /\ UNCHANGED cpTrace
    /\ UNCHANGED <<cpArgs, cpSrc, cpWire, cpBroken>>
    /\ UNCHANGED NotCopy

CopyNext ==
    \/ CopyWithFileMode
    \/ Copy
    \/ CopyFile
    \/ copy_NewSession
    \/ copy_Start
    \/ copy_WriteHeader
    \/ copy_Payload
    \/ copy_WriteNul
    \/ copy_Close

\* ====================================================== Server accept loop
\* Accept calls the loop makes
MaxAccepts == 4

ServerInit ==
    /\ sPc = "setup"
    /\ sOutcome = <<>>
    /\ sLog = <<>>
    /\ sRet = "none"
    /\ serveCalls = 0

\* a signer error that is not returned
AfterSignerErrorServe == "listen"

\* if err != nil { return err }
AfterSignerError == "returned"

\* ServeSSH: the callbacks are set; signer, err := s.Signer(); a failure is
\* returned; otherwise the host key is added and s.serveSSH() is called, which
\* runs DefaultSshHandler
ServeSSH ==
    /\ ~srvPanicked
    /\ sPc = "setup"
    /\ \E ok \in BOOLEAN :
        IF ok
        THEN /\ sPc' = "listen"
             /\ serveCalls' = serveCalls + 1
             /\ UNCHANGED sRet
        ELSE /\ sPc' = AfterSignerError
             /\ sRet' = "errSigner"
             /\ UNCHANGED serveCalls
    /\ UNCHANGED <<sOutcome, sLog>>
    /\ UNCHANGED NotServer

\* listener, err := net.Listen(...); if err != nil { log.Error(err); return }:
\* serveSSH() returns and ServeSSH returns nil
DefaultSshHandler_Listen ==
    /\ ~srvPanicked
    /\ sPc = "listen"
    /\ \E ok \in BOOLEAN :
        IF ok
        THEN /\ sPc' = "accept"
             /\ UNCHANGED <<sLog, sRet>>
        ELSE /\ sPc' = "returned"
             /\ sLog' = Append(sLog, "listen")
             /\ sRet' = "nil"
    /\ UNCHANGED <<sOutcome, serveCalls>>
    /\ UNCHANGED NotServer

\* a per-connection failure that ends the loop
AfterConnFailureReturn == "returned"

\* log.Errorf(...); continue
AfterConnFailure == "accept"

\* tcpConn, err := listener.Accept(); a failure is logged and the loop continues
DefaultSshHandler_Accept ==
    /\ ~srvPanicked
    /\ sPc = "accept"
    /\ Len(sOutcome) < MaxAccepts
    /\ \E ok \in BOOLEAN :
        IF ok
        THEN /\ sPc' = "handshake"
             /\ UNCHANGED <<sOutcome, sLog>>
        ELSE /\ sPc' = AfterConnFailure
             /\ sOutcome' = Append(sOutcome, "acceptErr")
             /\ sLog' = Append(sLog, "Failed to accept incoming connection")
    /\ UNCHANGED <<sRet, serveCalls>>
    /\ UNCHANGED NotServer

\* sshConn, chans, reqs, err := ssh.NewServerConn(tcpConn, s.SshConfig()), made by
\* the loop itself; a failure is logged and the loop continues; otherwise
\* go ssh.DiscardRequests(reqs) and go handleChannels(chans), and the loop continues
DefaultSshHandler_Handshake ==
    /\ ~srvPanicked
    /\ sPc = "handshake"
    /\ \E ok \in BOOLEAN :
        IF ok
        THEN /\ sPc' = "accept"
             /\ sOutcome' = Append(sOutcome, "served")
             /\ UNCHANGED sLog
        ELSE /\ sPc' = AfterConnFailure
             /\ sOutcome' = Append(sOutcome, "handshakeErr")
             /\ sLog' = Append(sLog, "Failed to handshake")
    /\ UNCHANGED <<sRet, serveCalls>>
    /\ UNCHANGED NotServer

ServerNext ==
    \/ ServeSSH
    \/ DefaultSshHandler_Listen
    \/ DefaultSshHandler_Accept
    \/ DefaultSshHandler_Handshake

\* ================================================== Server Channel Handler
Chans == 1..MaxChans
ChannelTypes == {"session", "x11", "direct-tcpip"}
Tasks == {"p2c", "c2p"}

ChanInit ==
    /\ chType = [c \in Chans |-> "none"]
    /\ chQueue = <<>>
    /\ hcSeen = [c \in Chans |-> 0]
    /\ hPc = [c \in Chans |-> "none"]
    /\ rejectMsg = [c \in Chans |-> ""]
    /\ chAccepted = [c \in Chans |-> FALSE]
    /\ clientClosed = [c \in Chans |-> FALSE]
    /\ bash = [c \in Chans |-> "none"]
    /\ connCloses = [c \in Chans |-> 0]
    /\ waits = [c \in Chans |-> 0]
    /\ onceDone = [c \in Chans |-> FALSE]
    /\ onceHolder = [c \in Chans |-> "none"]
    /\ copyPc = [c \in Chans |-> [t \in Tasks |-> "none"]]
    /\ srvLog = [c \in Chans |-> {}]
    /\ srvPanicked = FALSE
    /\ reqSent = [c \in Chans |-> 0]
    /\ reqQueue = [c \in Chans |-> <<>>]
    /\ winsize = [c \in Chans |-> [w |-> 0, h |-> 0]]
    /\ served = [c \in Chans |-> <<>>]

Rejected == {c \in Chans : hPc[c] = "rejected"}

\* the client opens its next channel, declaring type t: the transport puts the
\* request on chans
ClientOpensChannel ==
    /\ ~srvPanicked
    /\ \E c \in Chans, t \in ChannelTypes :
        /\ c <= chLimit
        /\ chType[c] = "none"
        /\ \A d \in Chans : d < c => chType[d] # "none"
        /\ chType' = [chType EXCEPT ![c] = t]
        /\ hPc' = [hPc EXCEPT ![c] = "queued"]
        /\ chQueue' = Append(chQueue, c)
    /\ UNCHANGED <<hcSeen, rejectMsg, chAccepted, clientClosed, bash, connCloses, waits,
                   onceDone, onceHolder, copyPc, srvLog, srvPanicked>>
    /\ UNCHANGED NotChan

\* for newChannel := range chans { go handleChannel(newChannel) }
handleChannels ==
    /\ ~srvPanicked
    /\ chQueue # <<>>
    /\ LET c == Head(chQueue) IN
        /\ hPc' = [hPc EXCEPT ![c] = "typeCheck"]
        /\ hcSeen' = [hcSeen EXCEPT ![c] = Cardinality(Rejected)]
    /\ chQueue' = Tail(chQueue)
    /\ UNCHANGED <<chType, rejectMsg, chAccepted, clientClosed, bash, connCloses, waits,
                   onceDone, onceHolder, copyPc, srvLog, srvPanicked>>
    /\ UNCHANGED NotChan

AnyType(t) == TRUE

\* t := newChannel.ChannelType(); t != "session" is rejected
IsSessionType(t) == t = "session"

\* fmt.Sprintf("unknown channel type: %s", t)
RejectReason(t) == "unknown channel type: " \o t

\* handleChannel, up to the accept: reject a type other than "session" and return;
\* otherwise newChannel.Accept(), whose failure is logged before returning
handleChannel_Accept(c) ==
    /\ ~srvPanicked
    /\ hPc[c] = "typeCheck"
    /\ IF ~IsSessionType(chType[c])
       THEN /\ hPc' = [hPc EXCEPT ![c] = "rejected"]
            /\ rejectMsg' = [rejectMsg EXCEPT ![c] = RejectReason(chType[c])]
            /\ UNCHANGED <<chAccepted, srvLog>>
       ELSE \E ok \in BOOLEAN :
            IF ok
            THEN /\ hPc' = [hPc EXCEPT ![c] = "ptyStart"]
                 /\ chAccepted' = [chAccepted EXCEPT ![c] = TRUE]
                 /\ UNCHANGED <<rejectMsg, srvLog>>
            ELSE /\ hPc' = [hPc EXCEPT ![c] = "acceptFailed"]
                 /\ srvLog' = [srvLog EXCEPT ![c] = @ \cup {"Could not accept channel"}]
                 /\ UNCHANGED <<rejectMsg, chAccepted>>
    /\ UNCHANGED <<chType, chQueue, hcSeen, clientClosed, bash, connCloses, waits,
                   onceDone, onceHolder, copyPc, srvPanicked>>
    /\ UNCHANGED NotChan

\* bash := exec.Command("bash"); bashf, err := pty.Start(bash).
\* On success the two copy tasks (and the request loop) are started and the handler
\* returns.  On failure the error is logged and close() is called directly:
\* connection.Close(), then bash.Process.Wait() on a command that never started,
\* whose Process is nil: the nil dereference panics and takes the process down.
handleChannel_PtyStart(c) ==
    /\ ~srvPanicked
    /\ hPc[c] = "ptyStart"
    /\ \E ok \in BOOLEAN :
        IF ok
        THEN /\ hPc' = [hPc EXCEPT ![c] = "relaying"]
             /\ bash' = [bash EXCEPT ![c] = "running"]
             /\ copyPc' = [copyPc EXCEPT ![c] = [t \in Tasks |-> "copy"]]
             /\ UNCHANGED <<connCloses, srvLog, srvPanicked>>
        ELSE /\ hPc' = [hPc EXCEPT ![c] = "ptyFailed"]
             /\ srvLog' = [srvLog EXCEPT ![c] = @ \cup {"Could not start pty"}]
             /\ connCloses' = [connCloses EXCEPT ![c] = @ + 1]
             /\ srvPanicked' = TRUE
             /\ UNCHANGED <<bash, copyPc>>
    /\ UNCHANGED <<chType, chQueue, hcSeen, rejectMsg, chAccepted, clientClosed, waits,
                   onceDone, onceHolder>>
    /\ UNCHANGED NotChan

\* the client closes the channel
ClientCloses(c) ==
    /\ ~srvPanicked
    /\ chAccepted[c]
    /\ ~clientClosed[c]
    /\ clientClosed' = [clientClosed EXCEPT ![c] = TRUE]
    /\ UNCHANGED <<chType, chQueue, hcSeen, hPc, rejectMsg, chAccepted, bash, connCloses,
                   waits, onceDone, onceHolder, copyPc, srvLog, srvPanicked>>
    /\ UNCHANGED NotChan

\* the shell exits (the user typed exit, or it was killed)
BashExits(c) ==
    /\ ~srvPanicked
    /\ bash[c] = "running"
    /\ bash' = [bash EXCEPT ![c] = "exited"]
    /\ UNCHANGED <<chType, chQueue, hcSeen, hPc, rejectMsg, chAccepted, clientClosed,
                   connCloses, waits, onceDone, onceHolder, copyPc, srvLog, srvPanicked>>
    /\ UNCHANGED NotChan

\* io.Copy(connection, bashf) / io.Copy(bashf, connection) returns: a stream of the
\* pair has ended (the channel was closed by either side, or the shell is gone)
CopyEnds(c, t) ==
    /\ ~srvPanicked
    /\ copyPc[c][t] = "copy"
    /\ clientClosed[c] \/ connCloses[c] > 0 \/ bash[c] # "running"
    /\ copyPc' = [copyPc EXCEPT ![c][t] = "once"]
    /\ UNCHANGED <<chType, chQueue, hcSeen, hPc, rejectMsg, chAccepted, clientClosed, bash,
                   connCloses, waits, onceDone, onceHolder, srvLog, srvPanicked>>
    /\ UNCHANGED NotChan

\* close() called without the guard
PlainCall(c, t) ==
    /\ copyPc[c][t] = "once"
    /\ copyPc' = [copyPc EXCEPT ![c][t] = "inClose"]
    /\ UNCHANGED <<onceDone, onceHolder>>

\* once.Do(close): return at once if the Once is done; otherwise take its mutex
\* (blocking while another task holds it) and, the Once still not done, run close
OnceDo(c, t) ==
    /\ copyPc[c][t] = "once"
    /\ IF onceDone[c]
       THEN /\ copyPc' = [copyPc EXCEPT ![c][t] = "done"]
            /\ UNCHANGED <<onceDone, onceHolder>>
       ELSE /\ onceHolder[c] = "none"
            /\ onceHolder' = [onceHolder EXCEPT ![c] = t]
            /\ copyPc' = [copyPc EXCEPT ![c][t] = "inClose"]
            /\ UNCHANGED onceDone

\* a copy task calls once.Do(close)
CopyTask_Once(c, t) ==
    /\ ~srvPanicked
    /\ OnceDo(c, t)
    /\ UNCHANGED <<chType, chQueue, hcSeen, hPc, rejectMsg, chAccepted, clientClosed, bash,
                   connCloses, waits, srvLog, srvPanicked>>
    /\ UNCHANGED NotChan

\* close(): connection.Close()
Teardown_CloseChannel(c, t) ==
    /\ ~srvPanicked
    /\ copyPc[c][t] = "inClose"
    /\ connCloses' = [connCloses EXCEPT ![c] = @ + 1]
    /\ copyPc' = [copyPc EXCEPT ![c][t] = "inWait"]
    /\ UNCHANGED <<chType, chQueue, hcSeen, hPc, rejectMsg, chAccepted, clientClosed, bash,
                   waits, onceDone, onceHolder, srvLog, srvPanicked>>
    /\ UNCHANGED NotChan

\* close(): bash.Process.Wait() returns once the shell has exited (an error is only
\* logged), "Session closed" is logged, and once.Do marks the Once done and unlocks
Teardown_Wait(c, t) ==
    /\ ~srvPanicked
    /\ copyPc[c][t] = "inWait"
    /\ bash[c] \in {"exited", "reaped"}
    /\ \E ok \in BOOLEAN :
        srvLog' = [srvLog EXCEPT ![c] =
                      @ \cup (IF ok /\ bash[c] = "exited" THEN {} ELSE {"Failed to exit bash"})
                        \cup {"Session closed"}]
    /\ bash' = [bash EXCEPT ![c] = "reaped"]
    /\ waits' = [waits EXCEPT ![c] = @ + 1]
    /\ onceDone' = [onceDone EXCEPT ![c] = TRUE]
    /\ onceHolder' = [onceHolder EXCEPT ![c] = IF @ = t THEN "none" ELSE @]
    /\ copyPc' = [copyPc EXCEPT ![c][t] = "done"]
    /\ UNCHANGED <<chType, chQueue, hcSeen, hPc, rejectMsg, chAccepted, clientClosed,
                   connCloses, srvPanicked>>
    /\ UNCHANGED NotChan

ChanNext ==
    \/ ClientOpensChannel
    \/ handleChannels
    \/ \E c \in Chans : handleChannel_Accept(c)
    \/ \E c \in Chans : handleChannel_PtyStart(c)
    \/ \E c \in Chans : ClientCloses(c)
    \/ \E c \in Chans : BashExits(c)
    \/ \E c \in Chans, t \in Tasks : CopyEnds(c, t)
    \/ \E c \in Chans, t \in Tasks : CopyTask_Once(c, t)
    \/ \E c \in Chans, t \in Tasks : Teardown_CloseChannel(c, t)
    \/ \E c \in Chans, t \in Tasks : Teardown_Wait(c, t)

\* ------------------------------------------ the request loop of a channel
\* requests a client sends on one channel
MaxReqs == 2

\* bytes here are numbers 0..255
Pow2(k) == 2 ^ k

\* a 32-bit value as four big-endian bytes
BE32(n) == << (n \div Pow2(24)) % 256, (n \div Pow2(16)) % 256,
              (n \div Pow2(8)) % 256, n % 256 >>

\* binary.BigEndian.Uint32(b): the first four bytes of b (fewer is a panic)
Uint32(b) == b[1] * Pow2(24) + b[2] * Pow2(16) + b[3] * Pow2(8) + b[4]

\* parseDims reading the height where the width is
parseDimsSameOffset(b) == [w |-> Uint32(b), h |-> Uint32(b)]

\* parseDims(b): w from b, h from b[4:]
parseDims(b) == [w |-> Uint32(b), h |-> Uint32(SubSeq(b, 5, Len(b)))]

\* parseDims panics (index out of range) on fewer than eight bytes
parseDimsPanics(b) == Len(b) < 8

\* uint16(x)
Uint16(x) == x % Pow2(16)

\* the Winsize that SetWinsize hands to the ioctl
Winsize(w, h) == [w |-> Uint16(w), h |-> Uint16(h)]

\* termLen := req.Payload[3]; the offset termLen+4 is computed in a byte
PtyReqOffset(payload) == (payload[4] + 4) % 256

\* the rest of the payload from that offset: req.Payload[termLen+4:]
PtyReqDims(payload) == SubSeq(payload, PtyReqOffset(payload) + 1, Len(payload))

\* taking every shell request for a bare shell
ShellAlways(payload) == TRUE

\* len(req.Payload) == 0
ShellBare(payload) == Len(payload) = 0

\* ---- what clients send
TermName(L) == [i \in 1..L |-> 120]
\* pty-req: string TERM, width, height, pixel width, pixel height, string modes
PtyReqPayload(L, w, h) ==
    BE32(L) \o TermName(L) \o BE32(w) \o BE32(h) \o BE32(0) \o BE32(0) \o BE32(0)
\* window-change: width, height, pixel width, pixel height
WindowChangePayload(w, h) == BE32(w) \o BE32(h) \o BE32(0) \o BE32(0)

TermLens == {0, 5, 252, 256}
Dims == {<<80, 24>>, <<120, 40>>}
BigDims == {<<65656, 40>>, <<120, 65536>>}

Requests ==
    {[type |-> "shell", payload |-> p] : p \in {<<>>, <<0, 0, 0, 2, 108, 115>>}}
    \cup {[type |-> "pty-req", payload |-> PtyReqPayload(L, d[1], d[2])] :
            L \in TermLens, d \in Dims}
    \cup {[type |-> "window-change", payload |-> WindowChangePayload(d[1], d[2])] :
            d \in Dims \cup BigDims}
    \cup {[type |-> "pty-req", payload |-> <<>>],
          [type |-> "window-change", payload |-> <<0, 0, 0, 80>>],
          [type |-> "env", payload |-> <<>>]}

\* the client sends a request on a channel the server accepted: the transport
\* puts it on the channel's requests channel
ClientSendsRequest(c) ==
    /\ ~srvPanicked
    /\ chAccepted[c]
    /\ reqSent[c] < MaxReqs
    /\ \E r \in Requests : reqQueue' = [reqQueue EXCEPT ![c] = Append(@, r)]
    /\ reqSent' = [reqSent EXCEPT ![c] = @ + 1]
    /\ UNCHANGED <<chLimit, winsize, served>>
    /\ UNCHANGED <<chVars, cpVars, svVars, tnVars>>

\* what one iteration of `for req := range requests` does with req: the geometry
\* it sets (if any), the reply it makes (if any), or a panic on a payload too
\* short for the indexing
Handled(req, ws) ==
    CASE req.type = "shell" ->
            [panic |-> FALSE, ws |-> ws,
             reply |-> IF ShellBare(req.payload) THEN "true" ELSE "none"]
      [] req.type = "pty-req" ->
            IF Len(req.payload) < 4 \/ PtyReqOffset(req.payload) > Len(req.payload)
                  \/ parseDimsPanics(PtyReqDims(req.payload))
            THEN [panic |-> TRUE, ws |-> ws, reply |-> "none"]
            ELSE LET d == parseDims(PtyReqDims(req.payload))
                 IN [panic |-> FALSE, ws |-> Winsize(d.w, d.h), reply |-> "true"]
      [] req.type = "window-change" ->
            IF parseDimsPanics(req.payload)
            THEN [panic |-> TRUE, ws |-> ws, reply |-> "none"]
            ELSE LET d == parseDims(req.payload)
                 IN [panic |-> FALSE, ws |-> Winsize(d.w, d.h), reply |-> "none"]
      [] OTHER -> [panic |-> FALSE, ws |-> ws, reply |-> "none"]

\* go func() { for req := range requests { switch req.Type { ... } } }(), started
\* once the PTY is allocated: one iteration
ServeRequest(c) ==
    /\ ~srvPanicked
    /\ hPc[c] = "relaying"
    /\ reqQueue[c] # <<>>
    /\ LET req == Head(reqQueue[c])
           out == Handled(req, winsize[c])
       IN /\ winsize' = [winsize EXCEPT ![c] = out.ws]
          /\ served' = [served EXCEPT ![c] =
                           Append(@, [req |-> req, reply |-> out.reply, ws |-> out.ws,
                                      panic |-> out.panic])]
          /\ srvPanicked' = out.panic
    /\ reqQueue' = [reqQueue EXCEPT ![c] = Tail(@)]
    /\ UNCHANGED <<chLimit, reqSent>>
    /\ UNCHANGED <<chType, chQueue, hcSeen, hPc, rejectMsg, chAccepted, clientClosed, bash,
                   connCloses, waits, onceDone, onceHolder, copyPc, srvLog>>
    /\ UNCHANGED <<cpVars, svVars, tnVars>>

RequestNext ==
    \/ ClientOpensChannel
    \/ handleChannels
    \/ \E c \in Chans : handleChannel_Accept(c)
    \/ \E c \in Chans : handleChannel_PtyStart(c)
    \/ \E c \in Chans : ClientSendsRequest(c)
    \/ \E c \in Chans : ServeRequest(c)

\* ======================================================== Forwarding Tunnel
Conns == 1..MaxConns
CopyTasks == {"out", "in", "stderr"}
\* the word a peer sends, or a prefix of it
Ping == <<"p", "i", "n", "g">>
PeerPayloads == {Take(Ping, k) : k \in 0..Min(MaxData, Len(Ping))}
StderrPayloads == {<<>>, <<"E">>}
\* what forwardFunc can return: a session and its pipes; a nil session and nil pipes
\* with an error (NewSession failed); live pipes with an error (Start failed)
OpenResults == {"ok", "errNil", "errLive"}

TunnelInit ==
    /\ fwdCh = "none"
    /\ chOps = 0
    /\ opens = 0
    /\ openCalls = [c \in Conns |-> 0]
    /\ sessOf = [c \in Conns |-> 0]
    /\ sockCloses = [c \in Conns |-> 0]
    /\ listener = "unbound"
    /\ fwdPc = "listen"
    /\ fwdRet = "none"
    /\ accepted = 0
    /\ tnPanicked = FALSE
    /\ gPc = [c \in Conns |-> "none"]
    /\ sess = [c \in Conns |-> "none"]
    /\ sessCloses = [c \in Conns |-> 0]
    /\ stdinClosed = [c \in Conns |-> FALSE]
    /\ errVar = [c \in Conns |-> "nil"]
    /\ tPc = [c \in Conns |-> [t \in CopyTasks |-> "none"]]
    /\ tRes = [c \in Conns |-> [t \in CopyTasks |-> "none"]]
    /\ tnLog = {}
    /\ peerSent = [c \in Conns |-> <<>>]
    /\ sockIn = [c \in Conns |-> <<>>]
    /\ inRead = [c \in Conns |-> <<>>]
    /\ stdinRecv = [c \in Conns |-> <<>>]
    /\ sOut = [c \in Conns |-> <<>>]
    /\ outRead = [c \in Conns |-> <<>>]
    /\ sockOut = [c \in Conns |-> <<>>]
    /\ stderrBuf = [c \in Conns |-> <<>>]
    /\ peerClosed = [c \in Conns |-> FALSE]
    /\ remoteDone = [c \in Conns |-> FALSE]

\* the tunnel process is running (no goroutine has panicked)
Alive == ~tnPanicked

\* a failed bind followed by the accept loop all the same
AfterListenErrorForward == "accept"

\* if err != nil { return nil, err }
AfterListenError == "returned"

\* the channel handed back as soon as the listener is bound
ChannelReturnedAtOnce == "ch"

\* return ch, Forward(...): nothing is returned while Forward runs
ChannelWhileForwarding == "none"

\* StartForwardedListener: listener, err := net.Listen("tcp", url).  A failure is
\* returned at once with a nil channel; otherwise Forward(...) is entered
StartForwardedListener ==
    /\ Alive
    /\ fwdPc = "listen"
    /\ \E ok \in BOOLEAN :
        IF ok
        THEN /\ listener' = "open"
             /\ fwdPc' = "accept"
             /\ fwdCh' = ChannelWhileForwarding
             /\ UNCHANGED fwdRet
        ELSE /\ fwdPc' = AfterListenError
             /\ fwdRet' = "errBind"
             /\ fwdCh' = "nil"
             /\ UNCHANGED listener
    /\ UNCHANGED <<peers, sockCloses, accepted, tnPanicked, gPc, sess, sessCloses, stdinClosed,
                   errVar, tPc, tRes, tnLog, peerSent, sockIn, inRead, stdinRecv, sOut,
                   outRead, sockOut, stderrBuf, peerClosed, remoteDone>>
    /\ UNCHANGED <<pairVars, chOps>>
    /\ UNCHANGED NotTunnel

\* a loop that runs each connection's task itself before accepting again
AcceptReadyAfterTask == fwdPc = "accept" /\ \A c \in Conns : gPc[c] \in {"none", "done"}

\* the loop is at listener.Accept(): go func() { ... }() returned at once
AcceptReady == fwdPc = "accept"

\* l, err := listener.Accept() returns a connection a peer made, the peer's bytes
\* already in flight on it; go func() { ... }() starts the connection's task
Forward_Accept ==
    /\ Alive
    /\ AcceptReady
    /\ accepted < peers
    /\ \E data \in PeerPayloads :
        LET c == accepted + 1 IN
        /\ accepted' = c
        /\ gPc' = [gPc EXCEPT ![c] = "open"]
        /\ peerSent' = [peerSent EXCEPT ![c] = data]
        /\ sockIn' = [sockIn EXCEPT ![c] = data]
    /\ UNCHANGED <<peers, fwdCh, sockCloses, listener, fwdPc, fwdRet, tnPanicked, sess, sessCloses, stdinClosed,
                   errVar, tPc, tRes, tnLog, inRead, stdinRecv, sOut, outRead, sockOut,
                   stderrBuf, peerClosed, remoteDone>>
    /\ UNCHANGED <<pairVars, chOps>>
    /\ UNCHANGED NotTunnel

\* an accept error retried instead of returned
AfterAcceptErrorContinue == "accept"

\* if err != nil { fmt.Println(err); return err }
AfterAcceptError == "returned"

\* listener.Accept() fails: the error is printed and returned; the deferred
\* listener.Close() runs, and StartForwardedListener returns ch with the error
Forward_AcceptError ==
    /\ Alive
    /\ fwdPc = "accept"
    /\ fwdPc' = AfterAcceptError
    /\ fwdRet' = "errAccept"
    /\ fwdCh' = "ch"
    /\ listener' = "closed"
    /\ UNCHANGED <<peers, sockCloses, accepted, tnPanicked, gPc, sess, sessCloses, stdinClosed,
                   errVar, tPc, tRes, tnLog, peerSent, sockIn, inRead, stdinRecv, sOut,
                   outRead, sockOut, stderrBuf, peerClosed, remoteDone>>
    /\ UNCHANGED <<pairVars, chOps>>
    /\ UNCHANGED NotTunnel

\* one session opened ahead and handed to every connection
SharedSessionId(n) == 1

\* conn.NewSession() opens a new session each time it is called
NewSessionId(n) == n + 1

\* stdin, stdout, stderr, err := forwardFunc(conn, url, port);
\* if err != nil { log.Error(err) }
Conn_OpenSession(c) ==
    /\ Alive
    /\ gPc[c] = "open"
    /\ opens' = opens + 1
    /\ openCalls' = [openCalls EXCEPT ![c] = @ + 1]
    /\ \E r \in OpenResults :
        /\ sess' = [sess EXCEPT ![c] = r]
        /\ sessOf' = [sessOf EXCEPT ![c] = IF r = "errNil" THEN 0 ELSE NewSessionId(opens)]
        /\ errVar' = [errVar EXCEPT ![c] = IF r = "ok" THEN "nil" ELSE "open"]
        /\ tnLog' = IF r = "ok" THEN tnLog ELSE tnLog \cup {<<c, "open", "open">>}
    /\ gPc' = [gPc EXCEPT ![c] = "spawn"]
    /\ UNCHANGED <<peers, fwdCh, sockCloses, listener, fwdPc, fwdRet, accepted, tnPanicked, sessCloses, stdinClosed,
                   tPc, tRes, peerSent, sockIn, inRead, stdinRecv, sOut, outRead, sockOut,
                   stderrBuf, peerClosed, remoteDone>>
    /\ UNCHANGED chOps
    /\ UNCHANGED NotTunnel

\* the three go func() { ... }() statements that follow, whatever err was
Conn_StartCopies(c) ==
    /\ Alive
    /\ gPc[c] = "spawn"
    /\ gPc' = [gPc EXCEPT ![c] = "done"]
    /\ tPc' = [tPc EXCEPT ![c] = [t \in CopyTasks |-> "copy"]]
    /\ UNCHANGED <<peers, fwdCh, sockCloses, listener, fwdPc, fwdRet, accepted, tnPanicked, sess, sessCloses,
                   stdinClosed, errVar, tRes, tnLog, peerSent, sockIn, inRead, stdinRecv,
                   sOut, outRead, sockOut, stderrBuf, peerClosed, remoteDone>>
    /\ UNCHANGED <<pairVars, chOps>>
    /\ UNCHANGED NotTunnel

\* a copy's return that ends the connection's other copies with it
CopyReturnsEndsAll(c, t, res) ==
    /\ tPc' = [tPc EXCEPT ![c] = [u \in CopyTasks |-> "check"]]
    /\ tRes' = [tRes EXCEPT ![c][t] = res]
    /\ errVar' = [errVar EXCEPT ![c] = res]

\* a copy of task t on connection c returns res ("nil" at end of stream, else the
\* task's error): _, err = io.Copy...(...) assigns it to the err the three closures
\* and the connection's task share
CopyReturns(c, t, res) ==
    /\ tPc' = [tPc EXCEPT ![c][t] = "check"]
    /\ tRes' = [tRes EXCEPT ![c][t] = res]
    /\ errVar' = [errVar EXCEPT ![c] = res]

\* a method call on a nil stream: the goroutine panics and the process dies
NilStreamPanic(c, t) ==
    /\ tnPanicked' = TRUE
    /\ tPc' = [tPc EXCEPT ![c][t] = "panic"]
    /\ UNCHANGED <<tRes, errVar>>

\* an iteration that writes only the first byte of what it read
WrittenShort(chunk) == Take(chunk, 1)

\* what an iteration of io.CopyBuffer writes after reading chunk into buf: all of it
Written(chunk) == chunk

\* the lengths a read of up to BufLen bytes can return from the bytes pending
ReadLens(pending) == 1..Min(Len(pending), BufLen)

\* io.CopyBuffer(l, stdout, buf): one iteration (read stdout, write the socket), or
\* its return.  A nil stdout panics at the first read.
CopyOut(c) ==
    /\ Alive
    /\ tPc[c]["out"] = "copy"
    /\ \/ /\ sess[c] = "errNil"
          /\ NilStreamPanic(c, "out")
          /\ UNCHANGED <<sOut, outRead, sockOut>>
       \/ /\ sess[c] # "errNil"
          /\ sOut[c] # <<>>
          /\ \E k \in ReadLens(sOut[c]), ok \in BOOLEAN :
              /\ ok \/ peerClosed[c]
              /\ sOut' = [sOut EXCEPT ![c] = Drop(@, k)]
              /\ outRead' = [outRead EXCEPT ![c] = @ \o Take(sOut[c], k)]
              /\ IF ok
                 THEN /\ sockOut' = [sockOut EXCEPT ![c] = @ \o Written(Take(sOut[c], k))]
                      /\ UNCHANGED <<tPc, tRes, errVar>>
                 ELSE /\ CopyReturns(c, "out", "out")
                      /\ UNCHANGED sockOut
          /\ UNCHANGED tnPanicked
       \/ /\ sess[c] # "errNil"
          /\ sOut[c] = <<>>
          /\ remoteDone[c]
          /\ \E res \in {"nil", "out"} : CopyReturns(c, "out", res)
          /\ UNCHANGED <<tnPanicked, sOut, outRead, sockOut>>
    /\ UNCHANGED <<peers, fwdCh, sockCloses, listener, fwdPc, fwdRet, accepted, gPc, sess, sessCloses, stdinClosed,
                   tnLog, peerSent, sockIn, inRead, stdinRecv, stderrBuf, peerClosed,
                   remoteDone>>
    /\ UNCHANGED <<pairVars, chOps>>
    /\ UNCHANGED NotTunnel

\* the bytes an echoing remote command puts on its stdout for a chunk it reads
Echo(c, chunk) == IF sess[c] = "ok" THEN chunk ELSE <<>>

\* io.CopyBuffer(stdin, l, buf): one iteration (read the socket, write stdin), or
\* its return.  With a nil stdin the read comes first: the write of the first
\* bytes read panics, end of stream returns nil.  A write to the stdin of a
\* command that has exited fails.
CopyIn(c) ==
    /\ Alive
    /\ tPc[c]["in"] = "copy"
    /\ \/ /\ sockIn[c] # <<>>
          /\ \E k \in ReadLens(sockIn[c]) :
              LET chunk == Take(sockIn[c], k) IN
              /\ sockIn' = [sockIn EXCEPT ![c] = Drop(@, k)]
              /\ inRead' = [inRead EXCEPT ![c] = @ \o chunk]
              /\ IF sess[c] = "errNil"
                 THEN /\ NilStreamPanic(c, "in")
                      /\ UNCHANGED <<stdinRecv, sOut>>
                 ELSE IF remoteDone[c]
                 THEN /\ CopyReturns(c, "in", "in")
                      /\ UNCHANGED <<tnPanicked, stdinRecv, sOut>>
                 ELSE /\ stdinRecv' = [stdinRecv EXCEPT ![c] = @ \o Written(chunk)]
                      /\ sOut' = [sOut EXCEPT ![c] = @ \o Echo(c, Written(chunk))]
                      /\ UNCHANGED <<tnPanicked, tPc, tRes, errVar>>
       \/ /\ sockIn[c] = <<>>
          /\ peerClosed[c]
          /\ \E res \in {"nil", "in"} : CopyReturns(c, "in", res)
          /\ UNCHANGED <<tnPanicked, sockIn, inRead, stdinRecv, sOut>>
    /\ UNCHANGED <<peers, fwdCh, sockCloses, listener, fwdPc, fwdRet, accepted, gPc, sess, sessCloses, stdinClosed,
                   tnLog, peerSent, outRead, sockOut, stderrBuf, peerClosed, remoteDone>>
    /\ UNCHANGED <<pairVars, chOps>>
    /\ UNCHANGED NotTunnel

\* io.Copy(stderrBuffer, stderr): runs until stderr ends or fails, buffering what
\* the command wrote.  A nil stderr panics at the first read.
CopyStderr(c) ==
    /\ Alive
    /\ tPc[c]["stderr"] = "copy"
    /\ \/ /\ sess[c] = "errNil"
          /\ NilStreamPanic(c, "stderr")
          /\ UNCHANGED stderrBuf
       \/ /\ sess[c] # "errNil"
          /\ remoteDone[c]
          /\ \E res \in {"nil", "stderr"}, data \in StderrPayloads :
              /\ CopyReturns(c, "stderr", res)
              /\ stderrBuf' = [stderrBuf EXCEPT ![c] = data]
          /\ UNCHANGED tnPanicked
    /\ UNCHANGED <<peers, fwdCh, sockCloses, listener, fwdPc, fwdRet, accepted, gPc, sess, sessCloses, stdinClosed,
                   tnLog, peerSent, sockIn, inRead, stdinRecv, sOut, outRead, sockOut,
                   peerClosed, remoteDone>>
    /\ UNCHANGED <<pairVars, chOps>>
    /\ UNCHANGED NotTunnel

\* if err != nil { log.Error(err) } on the shared err, then the task's last
\* statements: the stderr task logs and resets a non-empty buffer; the task ends
Task_CheckErr(c, t) ==
    /\ Alive
    /\ tPc[c][t] = "check"
    /\ tPc' = [tPc EXCEPT ![c][t] = "done"]
    /\ tnLog' = tnLog
                 \cup (IF errVar[c] # "nil" THEN {<<c, t, errVar[c]>>} ELSE {})
                 \cup (IF t = "stderr" /\ stderrBuf[c] # <<>>
                       THEN {<<c, "stderr", "output">>} ELSE {})
    /\ stderrBuf' = IF t = "stderr" THEN [stderrBuf EXCEPT ![c] = <<>>] ELSE stderrBuf
    /\ UNCHANGED <<peers, fwdCh, sockCloses, listener, fwdPc, fwdRet, accepted, tnPanicked, gPc, sess, sessCloses,
                   stdinClosed, errVar, tRes, peerSent, sockIn, inRead, stdinRecv, sOut,
                   outRead, sockOut, peerClosed, remoteDone>>
    /\ UNCHANGED <<pairVars, chOps>>
    /\ UNCHANGED NotTunnel

\* the peer closes its end of the local connection
PeerCloses(c) ==
    /\ Alive
    /\ gPc[c] # "none"
    /\ ~peerClosed[c]
    /\ peerClosed' = [peerClosed EXCEPT ![c] = TRUE]
    /\ UNCHANGED <<peers, fwdCh, sockCloses, listener, fwdPc, fwdRet, accepted, tnPanicked, gPc, sess, sessCloses,
                   stdinClosed, errVar, tPc, tRes, tnLog, peerSent, sockIn, inRead,
                   stdinRecv, sOut, outRead, sockOut, stderrBuf, remoteDone>>
    /\ UNCHANGED <<pairVars, chOps>>
    /\ UNCHANGED NotTunnel

\* the remote command of a started session exits: its stdout and stderr end
RemoteExits(c) ==
    /\ Alive
    /\ sess[c] = "ok"
    /\ ~remoteDone[c]
    /\ remoteDone' = [remoteDone EXCEPT ![c] = TRUE]
    /\ UNCHANGED <<peers, fwdCh, sockCloses, listener, fwdPc, fwdRet, accepted, tnPanicked, gPc, sess, sessCloses,
                   stdinClosed, errVar, tPc, tRes, tnLog, peerSent, sockIn, inRead,
                   stdinRecv, sOut, outRead, sockOut, stderrBuf, peerClosed>>
    /\ UNCHANGED <<pairVars, chOps>>
    /\ UNCHANGED NotTunnel

\* the accept loop, the connections' tasks and their copy loops
ServeNext ==
    \/ StartForwardedListener
    \/ Forward_Accept
    \/ Forward_AcceptError
    \/ \E c \in Conns : Conn_OpenSession(c)
    \/ \E c \in Conns : Conn_StartCopies(c)
    \/ \E c \in Conns : CopyOut(c)
    \/ \E c \in Conns : CopyIn(c)
    \/ \E c \in Conns : CopyStderr(c)

\* the ends of streams: peers closing, remote commands exiting, copies returning
EndNext ==
    \/ \E c \in Conns, t \in CopyTasks : Task_CheckErr(c, t)
    \/ \E c \in Conns : PeerCloses(c)
    \/ \E c \in Conns : RemoteExits(c)

\* ========================================================== specifications
\* the state after construction, n peers about to connect to the tunnel and a
\* client about to open m channels on the server connection
InitWith(n, m) ==
    CopyInit /\ ServerInit /\ ChanInit /\ TunnelInit /\ peers = n /\ chLimit = m

Init == InitWith(1, MaxChans)

AcceptInit == InitWith(MaxConns, MaxChans)

RequestInit == InitWith(1, 1)

CopySpec == Init /\ [][CopyNext]_vars

ChanSpec == Init /\ [][ChanNext]_vars

\* the tunnel serving several peers that stay connected to commands that keep
\* running
AcceptSpec == AcceptInit /\ [][ServeNext]_vars

\* the tunnel serving one peer, through the whole life of its connection
RelayNext == ServeNext \/ EndNext

RelaySpec == Init /\ [][RelayNext]_vars

\* the server's accept loop
ServerSpec == Init /\ [][ServerNext]_vars

\* one channel of the server, up to its relay, and its request loop
RequestSpec == RequestInit /\ [][RequestNext]_vars

\* goroutines that can run do run: the connection's task and its copy loops
RelayFairness ==
    \A c \in Conns :
        /\ WF_vars(Conn_OpenSession(c))
        /\ WF_vars(Conn_StartCopies(c))
        /\ WF_vars(CopyIn(c))
        /\ WF_vars(CopyOut(c))

FairRelaySpec == RelaySpec /\ RelayFairness

\* ------------------------------------------------- Remote Copy Framer: claims
\* the frame a receiver expects for the arguments a
Frame(a) == Header(a.mode, a.size, a.fileName) \o a.contents \o <<NUL>>

Count(s, x) == Cardinality({i \in 1..Len(s) : s[i] = x})

C9_EveryFailureSurfaced ==
    (cpPc = "done" /\ cpFailed # {}) => cpRet # "nil"

HelloCall ==
    /\ cpArgs.mode = 420 /\ cpArgs.fileName = HelloTxt /\ cpArgs.contents = Hello
    /\ cpRet = "nil" /\ cpFailed = {}

\* C10 (as claimed): "hello", mode 0644, name "hello.txt" is emitted as
\* "C644 5 hello.txt\n" + "hello" + NUL.
C10_HelloFrameC644 ==
    HelloCall =>
        cpWire = <<"C", "6", "4", "4", " ", "5", " ">> \o HelloTxt \o <<LF>>
                  \o Hello \o <<NUL>>

\* C10 (amended): "hello", mode 0644, name "hello.txt" is emitted as
\* "C0644 5 hello.txt\n" + "hello" + NUL: %#o keeps the leading 0 of the mode.
C10_HelloFrameC0644 ==
    HelloCall =>
        cpWire = <<"C", "0", "6", "4", "4", " ", "5", " ">> \o HelloTxt \o <<LF>>
                  \o Hello \o <<NUL>>

C10_Witness == HelloCall /\ cpArgs.via = "CopyWithFileMode" /\ Len(cpWire) = 24

\* the header line has been written by the call
HeaderWritten == \E i \in 1..Len(cpTrace) : cpTrace[i] = "header"

\* a mode in the documented form: a single leading 0, then the octal digits, padded
\* with zeros to at least four digits in total (0644, 0007, 01777)
Octal4(mode) ==
    LET d == FmtBase(mode, 8)
        pad == [i \in 1..(IF Len(d) < 3 THEN 3 - Len(d) ELSE 0) |-> "0"]
    IN <<"0">> \o pad \o d

\* the documented header line: C<mode> <length> <basename>\n
DocumentedHeader(a) ==
    <<"C">> \o Octal4(a.mode) \o <<" ">> \o FmtD(a.size) \o <<" ">>
        \o Base(a.fileName) \o <<LF>>

\* C11 (as claimed): for every mode, length and file name the header line written
\* is C, the mode in octal with a single leading 0 and at least four digits, a
\* space, the length in decimal, a space, the base name of the file, a newline.
C11_HeaderLineForm ==
    HeaderWritten => IsPrefix(DocumentedHeader(cpArgs), cpWire)

\* ---- a receiver of the documented wire format
OctalDigits == {"0", "1", "2", "3", "4", "5", "6", "7"}
DecimalDigits == OctalDigits \cup {"8", "9"}

\* the first position from `from` on at which s holds x, or 0
FirstAt(s, x, from) ==
    LET at == {i \in from..Len(s) : s[i] = x}
    IN IF at = {} THEN 0 ELSE CHOOSE i \in at : \A j \in at : i <= j

DigitValue(ch) == CHOOSE d \in 0..9 : Digit(d) = ch

RECURSIVE ParseD(_)
ParseD(ds) ==
    IF ds = <<>> THEN 0
    ELSE 10 * ParseD(SubSeq(ds, 1, Len(ds) - 1)) + DigitValue(ds[Len(ds)])

AllIn(s, S) == \A i \in 1..Len(s) : s[i] \in S

Undecodable == [ok |-> FALSE, name |-> <<>>, data |-> <<>>]

\* decode one frame: the header line up to its newline (mode of four or more octal
\* digits, decimal length, name), then `length` bytes, then the NUL that ends it
Decode(w) ==
    LET sp1 == FirstAt(w, " ", 2)
        sp2 == IF sp1 = 0 THEN 0 ELSE FirstAt(w, " ", sp1 + 1)
        nl  == IF sp2 = 0 THEN 0 ELSE FirstAt(w, LF, sp2 + 1)
    IN IF w = <<>> \/ w[1] # "C" \/ nl = 0 THEN Undecodable
       ELSE LET modeD == SubSeq(w, 2, sp1 - 1)
                lenD  == SubSeq(w, sp1 + 1, sp2 - 1)
                name  == SubSeq(w, sp2 + 1, nl - 1)
                rest  == SubSeq(w, nl + 1, Len(w))
            IN IF \/ Len(modeD) < 4 \/ ~AllIn(modeD, OctalDigits)
                  \/ lenD = <<>> \/ ~AllIn(lenD, DecimalDigits)
               THEN Undecodable
               ELSE LET n == ParseD(lenD)
                    IN IF Len(rest) # n + 1 \/ rest[n + 1] # NUL THEN Undecodable
                       ELSE [ok |-> TRUE, name |-> name, data |-> SubSeq(rest, 1, n)]

\* C12 (as claimed): round trip: decoding the bytes emitted by a call that reported
\* success recovers exactly the original payload under the original base name.
C12_RoundTrip ==
    cpRet = "nil" =>
        Decode(cpWire) = [ok |-> TRUE, name |-> Base(cpArgs.fileName),
                          data |-> cpArgs.contents]


\* ----------------------------------------------------- Forwarding Tunnel: claims
OpenFailed(c) == sess[c] \in {"errNil", "errLive"}

AllCopiesEnded(c) == \A t \in CopyTasks : tPc[c][t] = "done"

\* C2 (as claimed): when the session opener returns an error for a connection, the
\* error is logged and none of the three copy tasks is started for it.
C2_NoCopyAfterOpenFailure ==
    \A c \in Conns : OpenFailed(c) =>
        /\ <<c, "open", "open">> \in tnLog
        /\ \A t \in CopyTasks : tPc[c][t] = "none"

\* C3 (as claimed): a failed session open leaves the accept loop unaffected: while
\* the loop has not itself returned on an accept error, the tunnel keeps running
\* and can accept the next peer.
C3_AcceptLoopUnaffected ==
    (fwdPc = "accept" /\ \E c \in Conns : OpenFailed(c)) =>
        /\ Alive
        /\ accepted < peers => ENABLED Forward_Accept

\* C4 (as claimed): a session opened by a relay task is never closed twice, and
\* once the task's work has ended (the _copy call returned; all three streams of a
\* tunnel connection ended) it has been closed exactly once.
C4_SessionClosedExactlyOnce ==
    /\ cpSessCloses <= 1
    /\ (cpPc = "done" /\ cpRet \notin {"err:open", "err:session"}) => cpSessCloses = 1
    /\ \A c \in Conns :
        /\ sessCloses[c] <= 1
        /\ (sess[c] = "ok" /\ AllCopiesEnded(c)) => sessCloses[c] = 1

\* C5 (as claimed): when the socket-to-stdin copy of a connection has seen
\* end-of-stream (it returned without error), the write side of the session's
\* stdin is eventually closed.
C5_StdinClosedAfterSocketEOF ==
    \A c \in Conns :
        (sess[c] = "ok" /\ tPc[c]["in"] = "done" /\ tRes[c]["in"] = "nil") ~> stdinClosed[c]

\* the bytes of a connection are relayed in order, without loss or duplication
C6_Conserved ==
    \A c \in Conns : sess[c] = "ok" =>
        \* socket -> stdin
        /\ inRead[c] \o sockIn[c] = peerSent[c]
        /\ IsPrefix(stdinRecv[c], inRead[c])
        /\ tRes[c]["in"] # "in" => stdinRecv[c] = inRead[c]
        \* stdout -> socket (the echoing command writes back what it read)
        /\ outRead[c] \o sOut[c] = stdinRecv[c]
        /\ IsPrefix(sockOut[c], outRead[c])
        /\ tRes[c]["out"] # "out" => sockOut[c] = outRead[c]
        \* end to end
        /\ IsPrefix(sockOut[c], peerSent[c])

\* C6: for a connection whose session opened, stdin receives exactly the bytes
\* read from the socket and the socket exactly the bytes read from stdout, in
\* order, without loss or duplication (up to the chunk a failed write drops); and
\* with an echoing command the peer's bytes all come back on the socket, unless the
\* peer closes or the command exits first.
C6_ByteForByte ==
    /\ []C6_Conserved
    /\ \A c \in Conns :
          (sess[c] = "ok") ~> (sockOut[c] = peerSent[c] \/ peerClosed[c] \/ remoteDone[c])

\* a two-byte payload delivered to stdin and read back whole on the socket
C6_Witness ==
    \E c \in Conns :
        /\ sess[c] = "ok" /\ ~peerClosed[c] /\ ~remoteDone[c]
        /\ Len(peerSent[c]) >= 2
        /\ stdinRecv[c] = peerSent[c]
        /\ sockOut[c] = peerSent[c]

\* C17: when binding the local address fails, StartForwardedListener has returned
\* the bind error with no channel; nothing was or will be accepted, no session is
\* opened, and the bind is not attempted again.
C17_BindFailureReturned ==
    (fwdRet = "errBind" \/ (listener = "unbound" /\ fwdPc # "listen")) =>
        /\ fwdPc = "returned" /\ fwdRet = "errBind"
        /\ fwdCh = "nil"
        /\ listener = "unbound"
        /\ accepted = 0
        /\ \A c \in Conns :
            /\ gPc[c] = "none" /\ sess[c] = "none"
            /\ \A t \in CopyTasks : tPc[c][t] = "none"
        /\ ~ENABLED StartForwardedListener
        /\ ~ENABLED Forward_Accept

\* the bind failed while peers were about to connect
C17_Witness == fwdRet = "errBind" /\ fwdCh = "nil" /\ peers > 0

\* the accept loop has ended on an accept error
AcceptFailed == fwdRet = "errAccept"

\* C18: when Accept fails the loop returns that error and the listener is closed;
\* from then on no connection is accepted and the loop never accepts again.
C18_AcceptErrorIsTerminal ==
    /\ [](AcceptFailed =>
            /\ fwdPc = "returned"
            /\ listener = "closed"
            /\ ~ENABLED Forward_Accept)
    /\ [][AcceptFailed =>
            /\ AcceptFailed'
            /\ accepted' = accepted
            /\ listener' = "closed"
            /\ fwdPc' = "returned"]_vars

\* Accept failed after one connection was accepted and with a peer still to come,
\* and the accepted connection's task went on afterwards
C18_Witness ==
    /\ AcceptFailed /\ listener = "closed"
    /\ accepted = 1 /\ accepted < peers
    /\ gPc[1] = "done"

\* C20 (as claimed): the tunnel closes the accepted local socket of a connection
\* once one of its streams has ended: when all three copy tasks of a connection
\* have ended, its socket has been closed.
C20_SocketClosedAtEnd ==
    \A c \in Conns : AllCopiesEnded(c) => sockCloses[c] >= 1

\* the condition under which the copy of task t on connection c returns: its own
\* source has ended, or its own destination fails the write of what it read
OwnStreamEnded(c, t) ==
    CASE t = "out" -> (sOut[c] = <<>> /\ remoteDone[c]) \/ (sOut[c] # <<>> /\ peerClosed[c])
      [] t = "in" -> (sockIn[c] = <<>> /\ peerClosed[c]) \/ (sockIn[c] # <<>> /\ remoteDone[c])
      [] OTHER -> remoteDone[c]

\* C21: the three copy tasks of a connection are independent: a step of one task
\* that is copying or ending leaves the other two where they are, a copy returns
\* only when its own stream has ended or failed, and no step of a task closes the
\* session, its stdin or the socket under the others.
C21_CopyTasksIndependent ==
    [][\A c \in Conns : sess[c] \in {"ok", "errLive"} =>
          /\ \A t \in CopyTasks :
              /\ (tPc[c][t] \in {"copy", "check"} /\ tPc'[c][t] # tPc[c][t]) =>
                    \A u \in CopyTasks \ {t} : tPc'[c][u] = tPc[c][u]
              /\ (tPc[c][t] = "copy" /\ tPc'[c][t] # "copy") => OwnStreamEnded(c, t)
          /\ stdinClosed'[c] = stdinClosed[c]
          /\ sockCloses'[c] = sockCloses[c]
          /\ sessCloses'[c] = sessCloses[c]]_vars

\* the socket-to-stdin copy has ended and finished; the other two copies still run,
\* the stdout one with bytes still to deliver
C21_Witness ==
    \E c \in Conns :
        /\ sess[c] = "ok"
        /\ tPc[c]["in"] = "done"
        /\ tPc[c]["out"] = "copy" /\ tPc[c]["stderr"] = "copy"
        /\ sOut[c] # <<>>
        /\ ~remoteDone[c]

\* the errors task t of connection c logged (not the output of the stderr buffer)
ErrorsLoggedBy(c, t) == {e \in {"open", "out", "in", "stderr"} : <<c, t, e>> \in tnLog}

\* C22 (as claimed): for every interleaving, a copy task that has finished logged an
\* error if and only if its own copy returned one, and the error it logged is its
\* own.
C22_OwnErrorLogged ==
    \A c \in Conns : \A t \in CopyTasks :
        tPc[c][t] = "done" =>
            /\ ErrorsLoggedBy(c, t) # {} <=> tRes[c][t] # "nil"
            /\ ErrorsLoggedBy(c, t) \subseteq {tRes[c][t]}

\* the stream of the session a copy task works on: io.CopyBuffer(l, stdout, buf),
\* io.CopyBuffer(stdin, l, buf), io.Copy(stderrBuffer, stderr)
StreamOf(t) == CASE t = "out" -> "stdout" [] t = "in" -> "stdin" [] t = "stderr" -> "stderr"

\* the copy tasks at work on stream st of session s
CopiersOf(s, st) ==
    {ct \in Conns \X CopyTasks :
        /\ sessOf[ct[1]] = s
        /\ StreamOf(ct[2]) = st
        /\ tPc[ct[1]][ct[2]] \in {"copy", "check"}}

\* C25: each accepted connection is paired with its own freshly opened session:
\* the session opener is called once for a connection (never before its task
\* started, once from then on), no session is used by two connections, and each
\* stream of a session is copied by at most one copy task
C25_OwnFreshSession ==
    /\ \A c \in Conns :
        /\ gPc[c] \in {"none", "open"} => openCalls[c] = 0
        /\ gPc[c] \in {"spawn", "done"} => openCalls[c] = 1
        /\ sess[c] \in {"ok", "errLive"} => sessOf[c] \in 1..opens
    /\ \A c, d \in Conns : (c # d /\ sessOf[c] # 0) => sessOf[c] # sessOf[d]
    /\ \A s \in 1..opens : \A st \in {"stdin", "stdout", "stderr"} :
        Cardinality(CopiersOf(s, st)) <= 1

C25_Witness ==
    /\ sess[1] = "ok" /\ sess[2] = "ok"
    /\ sessOf[1] # 0 /\ sessOf[2] # 0 /\ sessOf[1] # sessOf[2]
    /\ \A t \in CopyTasks : tPc[1][t] = "copy" /\ tPc[2][t] = "copy"
    /\ openCalls[1] = 1 /\ openCalls[2] = 1

\* C26: the accept loop does not wait for per-connection work: whenever the
\* loop is running and a peer has connected, the connection can be accepted,
\* whatever the earlier connections' openers and copy tasks are doing
C26_AcceptDoesNotWait ==
    (Alive /\ fwdPc = "accept" /\ accepted < peers) => ENABLED Forward_Accept

C26_Witness ==
    /\ accepted = 2
    /\ gPc[1] = "open" /\ openCalls[1] = 0
    /\ gPc[2] = "open"

C26_WitnessCopying ==
    /\ accepted = 2
    /\ gPc[1] = "done"
    /\ \A t \in CopyTasks : tPc[1][t] = "copy"

\* C28: StartForwardedListener returns only after the accept loop has
\* terminated and with a non-nil error; the channel it returns is never sent on
\* and never closed, so no successful return is seen while the tunnel runs
C28_ReturnsOnlyOnFailure ==
    /\ fwdPc \in {"listen", "accept"} => (fwdCh = "none" /\ fwdRet = "none")
    /\ fwdCh # "none" => (fwdPc = "returned" /\ fwdRet \in {"errBind", "errAccept"})
    /\ fwdCh = "ch" => (listener = "closed" /\ fwdRet = "errAccept")
    /\ chOps = 0

C28_Witness ==
    /\ fwdCh = "ch" /\ fwdRet = "errAccept"
    /\ accepted >= 1
    /\ \E c \in Conns : \E t \in CopyTasks : tPc[c][t] = "copy"

\* ------------------------------------------------- Server accept loop: claims
\* the failures among the outcomes, as the messages logged for them
FailureMessages ==
    LET F(i) == IF sOutcome[i] = "acceptErr" THEN "Failed to accept incoming connection"
                ELSE "Failed to handshake"
        idx == {i \in 1..Len(sOutcome) : sOutcome[i] # "served"}
        RECURSIVE Build(_)
        Build(k) == IF k = 0 THEN <<>>
                    ELSE IF k \in idx THEN Append(Build(k - 1), F(k)) ELSE Build(k - 1)
    IN Build(Len(sOutcome))

\* C19: the server's accept loop never ends because of a per-connection failure:
\* only a failed bind makes it return; every Accept error and failed handshake is
\* logged, and after each the loop is back at Accept, ready for the next
\* connection.
C19_ServerLoopSurvives ==
    /\ [](/\ sPc = "returned" => (sOutcome = <<>> /\ sLog \in {<<>>, <<"listen">>})
          /\ sPc # "returned" => (sLog = FailureMessages)
          /\ (sPc = "accept" /\ ~srvPanicked /\ Len(sOutcome) < MaxAccepts)
                => ENABLED DefaultSshHandler_Accept)
    /\ [][(Len(sOutcome') > Len(sOutcome) /\ sOutcome'[Len(sOutcome')] # "served")
            => (sPc' = "accept" /\ Len(sLog') = Len(sLog) + 1)]_vars

\* a connection served after an Accept error and a failed handshake
C19_Witness ==
    /\ Len(sOutcome) >= 3
    /\ sOutcome[1] = "acceptErr" /\ sOutcome[2] = "handshakeErr" /\ sOutcome[3] = "served"
    /\ sPc = "accept"

\* C23 (as claimed): while the handshake of one incoming connection has not
\* completed, the server still accepts other incoming connections.
C23_AcceptDuringHandshake ==
    (sPc = "handshake" /\ ~srvPanicked /\ Len(sOutcome) < MaxAccepts)
        => ENABLED DefaultSshHandler_Accept

\* C27: server setup errors stop the engine before it serves anything: after a
\* signer error ServeSSH has returned it without calling serveSSH(); after a failed
\* bind the handler has logged it and returned; in both cases no connection was or
\* will be accepted.
C27_SetupErrorsFatal ==
    /\ (sRet = "errSigner" \/ (serveCalls = 0 /\ sPc # "setup")) =>
          /\ sRet = "errSigner" /\ serveCalls = 0 /\ sLog = <<>>
    /\ (sRet = "nil" \/ "listen" \in {sLog[i] : i \in 1..Len(sLog)}) =>
          /\ serveCalls = 1 /\ sLog = <<"listen">>
    /\ sRet # "none" =>
          /\ sPc = "returned"
          /\ sOutcome = <<>>
          /\ ~ENABLED DefaultSshHandler_Listen
          /\ ~ENABLED DefaultSshHandler_Accept
          /\ ~ENABLED DefaultSshHandler_Handshake

\* the signer could not be obtained: ServeSSH returned the error, nothing served
C27_Witness == sRet = "errSigner" /\ sPc = "returned" /\ serveCalls = 0

\* ------------------------------------------------ Server Channel Handler: claims
PtyAllocated(c) == bash[c] # "none"

\* C1: on a channel whose PTY was allocated, the channel is closed at most once and
\* the shell waited for at most once, the wait after the close, the teardown never
\* starts before a copy task has finished, only one task is ever inside it, and
\* once a copy task has returned from the guard it has been executed exactly once.
C1_TeardownExactlyOnce ==
    \A c \in Chans : PtyAllocated(c) =>
        /\ connCloses[c] <= 1
        /\ waits[c] <= connCloses[c]
        /\ Cardinality({t \in Tasks : copyPc[c][t] \in {"inClose", "inWait"}}) <= 1
        /\ connCloses[c] > 0 => \E t \in Tasks : copyPc[c][t] \in {"inWait", "done"}
        /\ (\E t \in Tasks : copyPc[c][t] = "done") =>
               connCloses[c] = 1 /\ waits[c] = 1

C1_Witness ==
    \E c \in Chans :
        /\ \A t \in Tasks : copyPc[c][t] = "done"
        /\ connCloses[c] = 1 /\ waits[c] = 1 /\ onceDone[c]

\* C7: a request of a type other than "session" is rejected with the reason
\* "unknown channel type: <type>", is never accepted and gets no shell, PTY or copy
\* task; and the servicing loop stays able to take every queued request while the
\* process lives.
C7_UnknownTypeRejected ==
    /\ \A c \in Chans : chType[c] \notin {"none", "session"} =>
        /\ ~chAccepted[c]
        /\ bash[c] = "none"
        /\ \A t \in Tasks : copyPc[c][t] = "none"
        /\ hPc[c] \in {"queued", "typeCheck", "rejected"}
        /\ hPc[c] = "rejected" =>
              rejectMsg[c] = "unknown channel type: " \o chType[c]
    /\ \A c \in Chans : chType[c] = "session" => rejectMsg[c] = ""
    /\ (chQueue # <<>> /\ ~srvPanicked) => ENABLED handleChannels

\* a request taken by the loop after an earlier rejection, and served
C7_Witness ==
    \E c \in Chans :
        /\ hcSeen[c] >= 1
        /\ hPc[c] = "relaying"
        /\ \E d \in Chans : d < c /\ hPc[d] = "rejected" /\ rejectMsg[d] = "unknown channel type: x11"

\* C13 (as claimed): when PTY allocation fails for an accepted channel the failure
\* is logged, the channel is closed, no copy task is started, the handler returns
\* normally, and the server keeps handling the other channels.
C13_PtyFailureIsolated ==
    \A c \in Chans : hPc[c] = "ptyFailed" =>
        /\ "Could not start pty" \in srvLog[c]
        /\ connCloses[c] = 1
        /\ \A t \in Tasks : copyPc[c][t] = "none"
        /\ ~srvPanicked
        /\ chQueue # <<>> => ENABLED handleChannels

\* ---- the request loop
\* the requests of a type that the loop of channel c has handled
ServedOf(c, type) == {i \in 1..Len(served[c]) : served[c][i].req.type = type}

\* a pty-req payload laid out as documented: a 4-byte length L, L bytes of name,
\* then at least width and height
WellFormedPtyReq(p) == Len(p) >= 4 /\ Len(p) >= 4 + Uint32(p) + 8

\* the two big-endian 32-bit values found at the given offset of a payload
DimsAt(p, offset) ==
    [w |-> Uint32(SubSeq(p, offset + 1, offset + 4)),
     h |-> Uint32(SubSeq(p, offset + 5, offset + 8))]

\* C14 (as claimed): for every pty-req whose payload is a 4-byte big-endian length
\* L, L name bytes, then width and height, for every L, the handler applies
\* exactly the width and height found at offset 4+L and replies affirmatively.
C14_PtyReqDimsAtOffset ==
    \A c \in Chans : \A i \in ServedOf(c, "pty-req") :
        LET r == served[c][i] IN
        WellFormedPtyReq(r.req.payload) =>
            /\ ~r.panic
            /\ r.ws = DimsAt(r.req.payload, 4 + Uint32(r.req.payload))
            /\ r.reply = "true"

\* a window-change payload laid out as documented: width and height from offset 0
WellFormedWindowChange(p) == Len(p) >= 8

\* C15 (as claimed): after a window-change the PTY geometry is exactly the width
\* and height of the payload, for all 32-bit values, and no reply is sent.
C15_ResizeExact32 ==
    \A c \in Chans : \A i \in ServedOf(c, "window-change") :
        LET r == served[c][i] IN
        WellFormedWindowChange(r.req.payload) =>
            /\ r.ws = DimsAt(r.req.payload, 0)
            /\ r.reply = "none"

\* C15 (amended): after a window-change the PTY geometry is the payload's width
\* and height, each reduced modulo 65536 (so exactly width x height when both are
\* below 65536), the geometry stays that until the next request is handled, and
\* no reply is sent.
C15_ResizeMod16 ==
    \A c \in Chans :
        /\ \A i \in ServedOf(c, "window-change") :
            LET r == served[c][i]
                d == DimsAt(r.req.payload, 0)
            IN WellFormedWindowChange(r.req.payload) =>
                /\ ~r.panic
                /\ r.ws = [w |-> d.w % 65536, h |-> d.h % 65536]
                /\ (d.w < 65536 /\ d.h < 65536) => r.ws = d
                /\ r.reply = "none"
        /\ (served[c] # <<>> /\ served[c][Len(served[c])].req.type = "window-change")
              => winsize[c] = served[c][Len(served[c])].ws

\* a resize to 120 x 40 (00 00 00 78 00 00 00 28) after another geometry, and a
\* resize with a width above 65535
C15_Witness ==
    \E c \in Chans :
        /\ Len(served[c]) = 2
        /\ served[c][1].req = [type |-> "window-change",
                               payload |-> WindowChangePayload(65656, 40)]
        /\ served[c][2].req.type = "window-change"
        /\ SubSeq(served[c][2].req.payload, 1, 8) = <<0, 0, 0, 120, 0, 0, 0, 40>>
        /\ winsize[c] = [w |-> 120, h |-> 40]

\* C16: a shell request is replied to affirmatively exactly when its payload is
\* empty (one with a command payload gets no affirmative reply), and after either
\* kind the loop is still running and takes the next request.
C16_ShellOnlyBare ==
    \A c \in Chans :
        /\ \A i \in ServedOf(c, "shell") :
            /\ served[c][i].reply = "true" <=> served[c][i].req.payload = <<>>
            /\ ~served[c][i].panic
            /\ served[c][i].ws = IF i = 1 THEN [w |-> 0, h |-> 0] ELSE served[c][i - 1].ws
        /\ (served[c] # <<>> /\ served[c][Len(served[c])].req.type = "shell") =>
            /\ ~srvPanicked
            /\ reqQueue[c] # <<>> => ENABLED ServeRequest(c)

\* a shell request with a command, left without reply, then a bare one, accepted
C16_Witness ==
    \E c \in Chans :
        /\ Len(served[c]) = 2
        /\ served[c][1].req.type = "shell" /\ served[c][1].req.payload # <<>>
        /\ served[c][1].reply = "none"
        /\ served[c][2].req.type = "shell" /\ served[c][2].req.payload = <<>>
        /\ served[c][2].reply = "true"
\* the handler of channel c has a step it can take (a copy returning, the guard,
\* the close, the wait returning)
HandlerCanStep(c) ==
    \E t \in Tasks :
        \/ ENABLED CopyEnds(c, t)
        \/ ENABLED CopyTask_Once(c, t)
        \/ ENABLED Teardown_CloseChannel(c, t)
        \/ ENABLED Teardown_Wait(c, t)

TeardownComplete(c) ==
    /\ connCloses[c] = 1
    /\ bash[c] = "reaped"
    /\ \A t \in Tasks : copyPc[c][t] = "done"

\* C24 (as claimed): after the client closes a shell channel the teardown
\* completes: the handler does not come to rest before the channel is closed, the
\* shell has exited and been reaped, and both copy tasks have terminated.
C24_TeardownCompletes ==
    \A c \in Chans :
        (PtyAllocated(c) /\ clientClosed[c] /\ ~srvPanicked /\ ~HandlerCanStep(c))
            => TeardownComplete(c)
====
